---- MODULE Spec2Model ----
(***************************************************************************)
(* Collapsable maths towers: the level/session controller (MainScene) as a *)
(* state machine.  One action per handler: keydown (handleAnswerKey), the  *)
(* cheat button (unfreezeAllTowers), the frame tick (update) and the scene *)
(* manager's queued restart.  The physics engine is an external            *)
(* collaborator: every tick first observes an arbitrary new physics world  *)
(* (contact pairs, body speeds, ball heights) and then runs update().      *)
(***************************************************************************)
EXTENDS Integers, Sequences, FiniteSets, TLC

\* ---------------------------------------------------------------- bounds
MaxFrames == 2          \* frames (ticks) explored
MaxInputLen == 1        \* characters kept in the answer input buffer
MaxContacts == 2        \* touching collider pairs per physics step
Answers == {1, 2}       \* answers of generated problems
DigitKeys == {"1", "2"} \* digit keys the player presses
UntypedAnswers == {3}   \* answers of upgrade problems the digit keys cannot type
TickDeltas == {7000}    \* frame durations (ms), coarse clock
SettleDeltas == {50, 6950} \* frame durations (ms), fine clock
MaxSettleFrames == 5    \* frames explored with the fine clock
AimFrames == 70         \* frames of aiming before the first key is typed
AimTypingFrames == 7    \* frames explored once keys are typed
MaxAdvanceFrames == 2   \* frames explored with upgrades and level advances
MaxScoreFrames == 3     \* frames explored with floor contacts and falling balls
\* <<linear, angular>> speeds on offer: at both thresholds, above either one
SettleSpeeds == { <<10, 10>>, <<11, 0>>, <<0, 11>> }

\* ----------------------------------------------------- program constants
NULL == -1                      \* null timestamp / undefined problem
BALL_RESET_DELAY_MS == 100
FALLBACK_RESET_MS == 7000
BALL_STOP_SPEED == 10           \* 0.01, in thousandths of a unit per second
SIM_STOP_ANGULAR_SPEED == 10    \* 0.00001, in millionths of a radian per second
FLOOR_Y == 800
PLATFORM_HEIGHT == 10
BALL_RADIUS == 20               \* radius r of a "ball" part
BIG_BALL_RADIUS == 400          \* radius r of a "bigball" part
PLATFORM_SURFACE_Y == 400       \* top surface of a platform
BALL_CLEARANCE == 2             \* isTowerBallDown: distToFloor <= radius + 2
PERFECT_SHOT_ANGLE_DEG == -55
PLATFORM_PARABOLA_Y_OFFSET == 100   \* PLATFORM_WIDTH / 2
GRAVITY_Y == <<2943, 10>>       \* 9.81 * GRAVITY_MULTIPLIER
AIM_ANGLE_MIN_DEG == -90
AIM_ANGLE_MAX_DEG == 0
AIM_POWER_MIN == 100
PLATFORM_WIDTH == 200
CATAPULT_HEIGHT_ABOVE_FLOOR == 400
startX == -600                  \* createPlayerBall
GAP_MAX == <<99, 100>>          \* Clamp(platformGapFraction, 0, 0.99)

\* heights a tower ball centre can be observed at: resting on its platform,
\* and fallen past the platform's underside
BallSpawnY == PLATFORM_SURFACE_Y - BALL_RADIUS

\* -------------------------------------------------------------- catalogs
\* The first two entries of LEVELS (level-1, level-2).  Fractions are
\* <<numerator, denominator>> pairs.
ALL_TOWER_IDS == {"manual-1766309066136", "manual-1766308758716", "manual-1766308701967"}

LEVELS ==
    << [platformCount |-> 1, platformGapFraction |-> <<2, 5>>, perfectShotPower |-> 750,
        towerIds |-> ALL_TOWER_IDS],
       [platformCount |-> 2, platformGapFraction |-> <<2, 5>>, perfectShotPower |-> 800,
        towerIds |-> ALL_TOWER_IDS] >>

\* Densities of the upgrade levels, in hundredths.
BEAVER_DENSITY_LEVELS ==
    << 10080, 12096, 18144, 25200, 32256, 40320, 50400, 60480, 70560, 80640 >>

\* Tower specs: ordered part lists of "plank", "ball" and "bigball" parts.
TOWER_LIBRARY == { <<"plank", "ball">> }

\* Other contents of the tower spec directory: a tower without balls, a tower
\* of two balls of different radius.
ScoreLibraries == { TOWER_LIBRARY, { <<"plank">> }, { <<"ball", "bigball">> } }

\* Ball centre heights on offer once a ball can move: the near-floor line of
\* a big ball, and either side of the platform's underside.
ScoreHeights == { FLOOR_Y - BIG_BALL_RADIUS - BALL_CLEARANCE,
                  PLATFORM_SURFACE_Y + PLATFORM_HEIGHT - 1,
                  PLATFORM_SURFACE_Y + PLATFORM_HEIGHT }

\* Tower id lists of level configurations: the three known ids, one known id,
\* a known id next to an unknown one, only an unknown id.
TrajectoryTowerIds ==
    { ALL_TOWER_IDS,
      {"manual-1766308758716"},
      {"manual-1766308758716", "manual-0"},
      {"manual-0"} }

\* Level configurations the layout generator is tried on: gap fractions from
\* 0 to 1, one to three platforms, shot powers from 0 (no flight) and 200 (a
\* flight that stays below the platform offset) to those of the first levels.
TrajectoryConfigs ==
    [ platformCount : {1, 2, 3},
      platformGapFraction : { <<0, 1>>, <<2, 5>>, <<99, 100>>, <<1, 1>> },
      perfectShotPower : {0, 200, 750, 800},
      towerIds : TrajectoryTowerIds ]

\* The tower spec directory the drawn configurations are run against.
TrajectoryLibrary == { <<"plank", "ball">>, <<"plank">> }

\* Cursor keys held down during a run of aiming.
AimCursors == { {"left"}, {"right"}, {"up"}, {"down"} }

\* Launch angles (degrees, y axis pointing down) and gravities it is tried on.
TrajectoryAngles == {-90, -55, -30, 0, 30}
TrajectoryGravities == { <<2943, 10>>, <<981, 10>> }

\* collider identities
BEAVER == <<0, 1>>
FLOOR == <<0, 0>>

VARIABLES
    scene,            \* "SettingsScene" | "MainScene"
    sceneOp,          \* scene manager queue: "none" | "restart" | "next" | "settings"
    levelIndex,       \* 0-based index into LEVELS
    towerTargets,     \* sequence of TowerTarget records
    hasLaunched,
    levelComplete,
    simStoppedAtMs,   \* NULL or ms
    launchTimeMs,     \* NULL or ms
    catapultProblem,  \* NULL or the answer of the catapult problem
    answerInputValue, \* sequence of typed characters
    towerBallTotal,
    towerBallDown,
    now,              \* scene clock (ms)
    frame,            \* game loop frame counter
    world,            \* physics world as observed after the last step
    wokenBodies,      \* bodies on which wakeUp() was called in the last tick
    impactBodies,     \* impactor list built by the last activation pass
    resetLog,         \* auto-reset log line of the last tick: "none" | "idle" | "fallback"
    score,            \* points credited in this attempt
    scoredBodies,     \* collider identities already credited
    ballBody,         \* the projectile's rigid body: position, speeds, gravity scale
    levelConfig,      \* LevelConfig of the running level
    towerLibrary,     \* tower definitions built from the tower spec files
    parabola,         \* the last layout computed by generateParabolaLevel
    aimAngle,         \* degrees
    aimPower,
    maxAimPower,
    cursors,          \* cursor keys held down: subset of {"left", "right", "up", "down"}
    upgradeState,     \* upgradeState.densityLevel
    upgradeProblems,  \* upgradeProblems.density: NULL or the answer of the upgrade problem
    gameState,        \* the gameState module object: [levelIndex, upgrades]
    upgradeAnswers,   \* answers the problem generator yields for upgrade problems
    activeTowerDefs   \* tower definitions the running level draws from

vars == << scene, sceneOp, levelIndex, towerTargets, hasLaunched, levelComplete,
           simStoppedAtMs, launchTimeMs, catapultProblem, answerInputValue,
           towerBallTotal, towerBallDown, now, frame, world, wokenBodies,
           impactBodies, resetLog, score, scoredBodies, ballBody, levelConfig,
           towerLibrary, parabola, aimAngle, aimPower, maxAimPower, cursors,
           upgradeState, upgradeProblems, gameState, upgradeAnswers, activeTowerDefs >>

aimVars == << aimAngle, aimPower, maxAimPower, cursors >>
upgradeVars == << upgradeState, upgradeProblems, gameState, upgradeAnswers >>

\* ------------------------------------------------- number arithmetic
\* Numbers of the layout computation are fractions <<n, d>> in lowest terms
\* with d > 0; products cancel before multiplying.
Abs(x) == IF x < 0 THEN -x ELSE x

RECURSIVE GCD(_, _)
GCD(a, b) == IF b = 0 THEN a ELSE GCD(b, a % b)

RatNorm(n, d) ==
    LET g == GCD(Abs(n), Abs(d))
        sgn == IF d < 0 THEN -1 ELSE 1
    IN  IF n = 0 THEN <<0, 1>> ELSE << sgn * (n \div g), sgn * (d \div g) >>

RatOfInt(n) == <<n, 1>>
RatNeg(a) == << -a[1], a[2] >>

RatMul(a, b) ==
    LET g1 == GCD(Abs(a[1]), b[2])
        g2 == GCD(Abs(b[1]), a[2])
    IN  IF a[1] = 0 \/ b[1] = 0 THEN <<0, 1>>
        ELSE << (a[1] \div g1) * (b[1] \div g2), (a[2] \div g2) * (b[2] \div g1) >>

\* a / b, for b # 0
RatDiv(a, b) ==
    RatMul(a, IF b[1] < 0 THEN << -b[2], -b[1] >> ELSE << b[2], b[1] >>)

RatAdd(a, b) ==
    LET g == GCD(a[2], b[2])
        l == (a[2] \div g) * b[2]
    IN  RatNorm(a[1] * (l \div a[2]) + b[1] * (l \div b[2]), l)

RatSub(a, b) == RatAdd(a, RatNeg(b))
RatLess(a, b) == a[1] * b[2] < b[1] * a[2]
\* Math.min
RatMin(a, b) == IF RatLess(b, a) THEN b ELSE a
\* Phaser.Math.Clamp
RatClamp(v, lo, hi) == IF RatLess(v, lo) THEN lo ELSE IF RatLess(hi, v) THEN hi ELSE v
\* Phaser.Math.Linear(p0, p1, t) = (p1 - p0) * t + p0
RatLinear(p0, p1, t) == RatAdd(RatMul(RatSub(p1, p0), t), p0)

RECURSIVE ISqrtBetween(_, _, _)
\* the largest r in lo..hi with r * r <= x
ISqrtBetween(x, lo, hi) ==
    IF lo >= hi THEN lo
    ELSE LET mid == (lo + hi + 1) \div 2
         IN  IF mid * mid <= x THEN ISqrtBetween(x, mid, hi)
             ELSE ISqrtBetween(x, lo, mid - 1)

\* Math.sqrt of a fraction >= 0, rounded down to a tenth
RatSqrt(a) == RatNorm(ISqrtBetween((a[1] * 100) \div a[2], 0, 46340), 10)

\* Math.sin(DegToRad(deg)): exact at -90, -30, 0, 30; to three decimals at -55
SinDeg(deg) ==
    CASE deg = -90 -> <<-1, 1>>
      [] deg = -55 -> <<-819, 1000>>
      [] deg = -30 -> <<-1, 2>>
      [] deg = 0 -> <<0, 1>>
      [] deg = 30 -> <<1, 2>>

\* Math.cos of the same angles, to three decimals
CosDeg(deg) ==
    CASE deg = -90 -> <<0, 1>>
      [] deg = -55 -> <<287, 500>>
      [] deg = -30 -> <<433, 500>>
      [] deg = 0 -> <<1, 1>>
      [] deg = 30 -> <<433, 500>>

\* ------------------------------------------------------------- helpers
\* part.type === 'ball'
IsBall(part) == part \in {"ball", "bigball"}
\* part.r
Radius(part) == IF part = "bigball" THEN BIG_BALL_RADIUS ELSE BALL_RADIUS

Parts(target) == 1..Len(target.spec)
TowerBodies(targets, i) == { <<i, j>> : j \in Parts(targets[i]) }
AllTowerBodies(targets) == UNION { TowerBodies(targets, i) : i \in DOMAIN targets }

\* a ball created movable instead of fixed
CreateBallBodyType_Dynamic == "Dynamic"

\* createPlank / createBall: the rigid body type a new part is given
CreatePlankBodyType == "Fixed"
CreateBallBodyType == "Fixed"

\* buildTowerDefinition.spawn + createPlatformWithTower: a fresh TowerTarget
SpawnTarget(spec, answer) ==
    [ spec |-> spec,
      state |-> "frozen",
      questionText |-> TRUE,
      problem |-> answer,
      bodyType |-> [j \in 1..Len(spec) |->
                       IF IsBall(spec[j]) THEN CreateBallBodyType ELSE CreatePlankBodyType],
      isDown |-> [j \in 1..Len(spec) |-> FALSE] ]

\* world.contactPair(a, b, cb): cb fires iff the pair is touching
ContactPair(w, a, b) == {a, b} \in w.contacts

\* checkAnswer of the maths provider, on the parsed answer value
CheckAnswer(problem, value) == problem # NULL /\ value = problem

RECURSIVE NumberOf(_)
\* Number(trimmed) for a string of decimal digits
NumberOf(s) ==
    IF s = << >> THEN 0
    ELSE LET d == IF s[Len(s)] = "1" THEN 1 ELSE 2
         IN  10 * NumberOf(SubSeq(s, 1, Len(s) - 1)) + d


\* ------------------------------------------------- physics world (input)
\* Collider pairs that can be reported touching: the beaver against a tower
\* body, and bodies of two different towers.
ImpactPairs(targets) ==
    LET tb == AllTowerBodies(targets)
    IN  { {BEAVER, b} : b \in tb }
        \cup { {x[1], x[2]} : x \in { y \in tb \X tb : y[1][1] # y[2][1] } }

RECURSIVE ContactSetsUpTo(_, _)
ContactSetsUpTo(pairs, n) ==
    IF n = 0 THEN { {} }
    ELSE LET prev == ContactSetsUpTo(pairs, n - 1)
         IN  prev \cup { c \cup {p} : c \in prev, p \in pairs }

ContactSets(pairs) == ContactSetsUpTo(pairs, MaxContacts)

DynamicTypeBodies(targets) ==
    { b \in AllTowerBodies(targets) : targets[b[1]].bodyType[b[2]] = "Dynamic" }

NoMotion == [mover |-> FLOOR, lin |-> 0, ang |-> 0]

\* At most one body is observed above rest; a Fixed body never moves.
\* speeds: the <<linear, angular>> speed pairs on offer.
Motions(targets, speeds) ==
    { NoMotion }
    \cup { [mover |-> b, lin |-> v[1], ang |-> v[2]] :
             b \in {BEAVER} \cup DynamicTypeBodies(targets), v \in speeds }

BallIds(targets) ==
    { b \in AllTowerBodies(targets) : IsBall(targets[b[1]].spec[b[2]]) }

\* Ball centre heights: a Fixed ball stays where it was spawned.
BallHeights(targets, ys) ==
    { f \in [BallIds(targets) -> ys \cup {BallSpawnY}] :
        \A b \in BallIds(targets) :
            targets[b[1]].bodyType[b[2]] = "Fixed" => f[b] = BallSpawnY }

Worlds(targets, pairs, speeds, ys) ==
    { [contacts |-> c, motion |-> m, ballY |-> y] :
        c \in ContactSets(pairs), m \in Motions(targets, speeds),
        y \in BallHeights(targets, ys) }

RestWorld(targets) ==
    [contacts |-> {}, motion |-> NoMotion,
     ballY |-> [b \in BallIds(targets) |-> BallSpawnY]]

LinSpeed(w, b) == IF w.motion.mover = b THEN w.motion.lin ELSE 0
AngSpeed(w, b) == IF w.motion.mover = b THEN w.motion.ang ELSE 0

\* Phaser.Math.Clamp(value, min, max) = Math.max(min, Math.min(max, value))
Min(a, b) == IF a < b THEN a ELSE b
Max(a, b) == IF a > b THEN a ELSE b
Clamp(value, min, max) == Max(min, Min(max, value))

\* ------------------------------------------------- level layout
\* the return time without its factor 2
TReturnToStartY_Half(vy, g) == RatDiv(RatNeg(vy), g)

\* generateParabolaLevel: tReturnToStartY = (-2 * vy) / GRAVITY_Y
TReturnToStartY(vy, g) == RatDiv(RatMul(RatOfInt(-2), vy), g)

\* generateParabolaLevel: height above the launch point at time t,
\* vy * t + 0.5 * GRAVITY_Y * t * t
HeightAt(vy, g, t) ==
    RatAdd(RatMul(vy, t), RatMul(RatMul(<<1, 2>>, g), RatMul(t, t)))

\* a single platform placed at the start of the span
AlphaWithin_AtStart(i, n) == IF n = 1 THEN <<0, 1>> ELSE RatNorm(i, n - 1)

\* generateParabolaLevel: alphaWithin of platform i (0-based) of n
AlphaWithin(i, n) == IF n = 1 THEN <<1, 2>> ELSE RatNorm(i, n - 1)

\* the discriminant test left out
DiscRejects_Never(disc) == FALSE

\* generateParabolaLevel: if (disc <= 0) return
DiscRejects(disc) == disc[1] <= 0

\* A time in whole milliseconds (positions are kept to that precision).
Millis(t) == (t[1] \div t[2]) * 1000 + ((t[1] % t[2]) * 1000) \div t[2]

\* generateParabolaLevel: x = startX + vx * t
XAt(vx, t) == RatAdd(RatOfInt(startX), RatMul(vx, RatNorm(Millis(t), 1000)))

\* generateParabolaLevel: y = startY + vy * t + 0.5 * GRAVITY_Y * t * t
YAt(vy, g, t) ==
    LET ms == Millis(t)
        tt == RatNorm((ms * ms) \div 1000, 1000)
    IN  RatAdd(RatOfInt(FLOOR_Y - CATAPULT_HEIGHT_ABOVE_FLOOR),
               RatAdd(RatMul(vy, RatNorm(ms, 1000)), RatMul(RatMul(<<1, 2>>, g), tt)))

\* the tower put on the platform's left edge
CreatePlatformAnchor_LeftEdge(x, y) ==
    << x, RatAdd(y, RatOfInt(PLATFORM_PARABOLA_Y_OFFSET)) >>

\* createPlatformWithTower: << towerX, surfaceY >> of the platform whose left
\* edge is at parabola point (x, y)
CreatePlatformAnchor(x, y) ==
    << RatAdd(x, RatNorm(PLATFORM_WIDTH, 2)),
       RatAdd(y, RatOfInt(PLATFORM_PARABOLA_Y_OFFSET)) >>

NoParabola ==
    [valid |-> FALSE, vx |-> <<0, 1>>, vy |-> <<0, 1>>, g |-> GRAVITY_Y,
     tReturn |-> <<0, 1>>, tEnd |-> <<0, 1>>, times |-> << >>, anchors |-> << >>]

\* generateParabolaLevel: the sample times of the platforms; none when the
\* trajectory is rejected by one of the early returns
GenerateParabolaLevel(cfg, angleDeg, g) ==
    LET vx == RatMul(RatOfInt(cfg.perfectShotPower), CosDeg(angleDeg))
        vy == RatMul(RatOfInt(cfg.perfectShotPower), SinDeg(angleDeg))
        tReturnToStartY == TReturnToStartY(vy, g)
        a == RatMul(<<1, 2>>, g)
        b == vy
        c == RatOfInt(PLATFORM_PARABOLA_Y_OFFSET)
        disc == RatSub(RatMul(b, b), RatMul(RatOfInt(4), RatMul(a, c)))
        tEnd == RatDiv(RatAdd(RatNeg(b), RatSqrt(disc)), RatMul(RatOfInt(2), a))
        gap == RatClamp(cfg.platformGapFraction, <<0, 1>>, GAP_MAX)
        tStart == RatMul(gap, tReturnToStartY)
        tStartClamped == RatMin(tStart, tEnd)
        t(i) == RatLinear(tStartClamped, tEnd, AlphaWithin(i - 1, cfg.platformCount))
        rejected == [NoParabola EXCEPT !.vx = vx, !.vy = vy, !.g = g,
                                       !.tReturn = tReturnToStartY]
    IN  IF tReturnToStartY[1] <= 0 THEN rejected
        ELSE IF DiscRejects(disc) THEN rejected
        ELSE IF tEnd[1] <= 0 THEN rejected
        ELSE [valid |-> TRUE, vx |-> vx, vy |-> vy, g |-> g,
              tReturn |-> tReturnToStartY, tEnd |-> tEnd,
              times |-> [i \in 1..cfg.platformCount |-> t(i)],
              anchors |-> [i \in 1..cfg.platformCount |->
                             CreatePlatformAnchor(XAt(vx, t(i)), YAt(vy, g, t(i)))]]

\* buildTowerDefinition: id of a definition (spec.id of its spec file)
TowerId(def) ==
    CASE def = <<"plank", "ball">> -> "manual-1766309066136"
      [] def = <<"plank">> -> "manual-1766308758716"
      [] def = <<"ball", "bigball">> -> "manual-1766308701967"

\* the filter without its fallback
GetLevelTowerDefinitions_NoFallback(library, towerIds) ==
    { def \in library : TowerId(def) \in towerIds }

\* getLevelTowerDefinitions
GetLevelTowerDefinitions(library, towerIds) ==
    LET defs == { def \in library : TowerId(def) \in towerIds }
    IN  IF defs = {} THEN library ELSE defs

\* ------------------------------------------------ aim and upgrades
\* handleInput: the cursor keys move the aim, then both values are clamped
AimStep(angle, power, maxPower, keys) ==
    LET a1 == IF "left" \in keys THEN angle - 1
              ELSE IF "right" \in keys THEN angle + 1 ELSE angle
        p1 == IF "up" \in keys THEN power + 10
              ELSE IF "down" \in keys THEN power - 10 ELSE power
    IN  [aimAngle |-> Clamp(a1, AIM_ANGLE_MIN_DEG, AIM_ANGLE_MAX_DEG),
         aimPower |-> Clamp(p1, AIM_POWER_MIN, maxPower)]

\* the aim following the cursor keys in every frame
HandleInputAim_Always(complete, launched, angle, power, maxPower, keys) ==
    AimStep(angle, power, maxPower, keys)

\* handleInput: no aiming once the level is complete or the shot is under way
HandleInputAim(complete, launched, angle, power, maxPower, keys) ==
    IF complete \/ launched
    THEN [aimAngle |-> angle, aimPower |-> power]
    ELSE AimStep(angle, power, maxPower, keys)

\* canUpgrade('density')
CanUpgrade(densityLevel) == densityLevel < Len(BEAVER_DENSITY_LEVELS) - 1

\* an upgrade for any submitted answer
TryUpgrade_AnyAnswer(problem, value) == problem # NULL

\* tryUpgrade: the submitted value answers the upgrade problem on offer
TryUpgrade(problem, value) == problem # NULL /\ CheckAnswer(problem, value)

\* applyUpgrade: the density level after an accepted upgrade
ApplyUpgrade(densityLevel) ==
    IF CanUpgrade(densityLevel) THEN densityLevel + 1 ELSE densityLevel

\* createUpgradeProblems, refreshUpgradeProblem: the problems that can be put
\* on offer at a density level
RefreshUpgradeProblem(densityLevel, answers) ==
    IF CanUpgrade(densityLevel) THEN answers ELSE {NULL}

\* resetGameState
ResetGameState == [levelIndex |-> 0, upgrades |-> 0]

\* ------------------------------------------------ tower state machine
\* submitAnswer: what a correct answer does to a frozen tower
UnfreezeTarget(target) ==
    [target EXCEPT !.state = "unfrozen", !.questionText = FALSE]

\* the cheat leaving the question text in place
CheatUnfreezeTarget_KeepText(target) ==
    [target EXCEPT !.state = "unfrozen"]

\* unfreezeAllTowers: what the cheat does to a frozen tower
CheatUnfreezeTarget(target) ==
    [target EXCEPT !.state = "unfrozen", !.questionText = FALSE]

\* the loop unfreezing whatever the answer
SubmitUnfreeze_AnyAnswer(targets, value) ==
    [i \in DOMAIN targets |->
        IF targets[i].state # "frozen" THEN targets[i] ELSE UnfreezeTarget(targets[i])]

\* submitAnswer, the loop over towerTargets
SubmitUnfreeze(targets, value) ==
    [i \in DOMAIN targets |->
        IF targets[i].state # "frozen" THEN targets[i]
        ELSE IF CheckAnswer(targets[i].problem, value) THEN UnfreezeTarget(targets[i])
        ELSE targets[i]]

\* the cheat without its state test
UnfreezeAllTowers_NoTest(targets) ==
    [i \in DOMAIN targets |-> CheatUnfreezeTarget(targets[i])]

\* unfreezeAllTowers
UnfreezeAllTowers(targets) ==
    [i \in DOMAIN targets |->
        IF targets[i].state = "frozen" THEN CheatUnfreezeTarget(targets[i]) ELSE targets[i]]

\* only the planks switched to Dynamic
EnableBodiesDynamic_PlanksOnly(target) ==
    [target EXCEPT !.bodyType = [j \in Parts(target) |->
        IF target.spec[j] = "plank" THEN "Dynamic" ELSE target.bodyType[j]]]

\* enableBodiesDynamic: setBodyType(Dynamic) on every body of the tower
EnableBodiesDynamic(target) ==
    [target EXCEPT !.bodyType = [j \in Parts(target) |-> "Dynamic"]]

\* enableBodiesDynamic: the bodies that get wakeUp()
WakeUpBodies(targets, i) == TowerBodies(targets, i)

\* the beaver counted as an impactor before launch
ImpactBodies_AlwaysBeaver(launched, targets) ==
    {BEAVER}
    \cup UNION { TowerBodies(targets, i) :
                   i \in { k \in DOMAIN targets : targets[k].state = "dynamic" } }

\* checkTowerActivations: the impactor list, built before the pass
ImpactBodies(launched, targets) ==
    (IF launched THEN {BEAVER} ELSE {})
    \cup UNION { TowerBodies(targets, i) :
                   i \in { k \in DOMAIN targets : targets[k].state = "dynamic" } }

\* checkTowerActivations: the contact scan of one tower against the impactors
TowerHit(targets, i, impact, w) ==
    \E a \in impact : \E b \in TowerBodies(targets, i) : ContactPair(w, a, b)

\* the pass examining frozen towers too
ActivationEligible_NotDynamic(target) == target.state # "dynamic"

\* checkTowerActivations: which towers the pass examines
ActivationEligible(target) == target.state = "unfrozen"

RECURSIVE ActivationPass(_, _, _, _)
\* checkTowerActivations: the pass over towerTargets from index i on
ActivationPass(targets, i, impact, w) ==
    IF i > Len(targets) THEN targets
    ELSE IF ActivationEligible(targets[i]) /\ TowerHit(targets, i, impact, w)
         THEN ActivationPass(
                [targets EXCEPT ![i] = EnableBodiesDynamic([@ EXCEPT !.state = "dynamic"])],
                i + 1, impact, w)
         ELSE ActivationPass(targets, i + 1, impact, w)

CheckTowerActivations(targets, launched, w) ==
    LET impact == ImpactBodies(launched, targets)
    IN  IF impact = {} THEN targets ELSE ActivationPass(targets, 1, impact, w)

\* ------------------------------------------------ completion tracking
\* the floor contact left out of the test
IsTowerBallDown_NoContact(targets, w, b) ==
    \/ FLOOR_Y - w.ballY[b] <= Radius(targets[b[1]].spec[b[2]]) + BALL_CLEARANCE
    \/ w.ballY[b] >= PLATFORM_SURFACE_Y + PLATFORM_HEIGHT

\* isTowerBallDown
IsTowerBallDown(targets, w, b) ==
    LET centerY == w.ballY[b]
        distToFloor == FLOOR_Y - centerY
        nearFloor == distToFloor <= Radius(targets[b[1]].spec[b[2]]) + BALL_CLEARANCE
        belowPlatform == centerY >= PLATFORM_SURFACE_Y + PLATFORM_HEIGHT
        hitFloor == ContactPair(w, b, FLOOR)
    IN  hitFloor \/ nearFloor \/ belowPlatform

\* the flag recomputed from the test on every pass
MarkBallsDown_Recompute(targets, w) ==
    [i \in DOMAIN targets |->
        [targets[i] EXCEPT !.isDown =
            [j \in Parts(targets[i]) |->
                IsBall(targets[i].spec[j]) /\ IsTowerBallDown(targets, w, <<i, j>>)]]]

\* checkLevelCompletion: the isDown marking loop
MarkBallsDown(targets, w) ==
    [i \in DOMAIN targets |->
        [targets[i] EXCEPT !.isDown =
            [j \in Parts(targets[i]) |->
                IF IsBall(targets[i].spec[j])
                THEN targets[i].isDown[j] \/ IsTowerBallDown(targets, w, <<i, j>>)
                ELSE FALSE]]]

\* checkLevelCompletion: total
CountBalls(targets) == Cardinality(BallIds(targets))

\* every ball counted as down
CountDown_All(targets) == Cardinality(BallIds(targets))

\* checkLevelCompletion: down
CountDown(targets) ==
    Cardinality({ b \in BallIds(targets) : targets[b[1]].isDown[b[2]] })

\* completion without the total > 0 test
LevelCompletes_NoTotalTest(total, down) == down = total

\* checkLevelCompletion: the test that calls completeLevel
LevelCompletes(total, down) == total > 0 /\ down = total

\* ------------------------------------------------------- scoring pass
\* bodies credited whether or not they were credited before
GroundHits_NoDedup(targets, scored, w) ==
    { b \in AllTowerBodies(targets) : ContactPair(w, b, FLOOR) }

\* checkTowerGroundHits: bodies of tower.bodies credited by this pass
GroundHits(targets, scored, w) ==
    { b \in AllTowerBodies(targets) \ scored : ContactPair(w, b, FLOOR) }

\* checkTowerGroundHits: one point per credited body, its handle recorded
CheckTowerGroundHits(targets, sc, scored, w) ==
    LET hits == GroundHits(targets, scored, w)
    IN  [score |-> sc + Cardinality(hits), scoredBodies |-> scored \cup hits]

\* ------------------------------------------------------- the projectile
\* ballBody before the scene has created it
NoBall == [pos |-> "unset", lin |-> 0, ang |-> 0, gravityScale |-> 0]

\* createPlayerBall: at the catapult anchor, floating until launch
CreatePlayerBall == [pos |-> "anchor", lin |-> 0, ang |-> 0, gravityScale |-> 0]

\* launch: gravity on, velocity of magnitude aimPower (thousandths per second)
LaunchBall(body, power) ==
    [body EXCEPT !.gravityScale = 1, !.lin = power * 1000]

\* the physics step: speeds as observed; a body under gravity leaves the anchor
StepBall(body, w) ==
    [body EXCEPT !.lin = LinSpeed(w, BEAVER), !.ang = AngSpeed(w, BEAVER),
                 !.pos = IF body.gravityScale = 1 THEN "flight" ELSE @]

\* the reset leaving gravity switched on
ResetBallToCatapult_GravityOn(body) ==
    [pos |-> "anchor", lin |-> 0, ang |-> 0, gravityScale |-> body.gravityScale]

\* resetBallToCatapult: setLinvel, setAngvel, setTranslation, setGravityScale
ResetBallToCatapult(body) ==
    [pos |-> "anchor", lin |-> 0, ang |-> 0, gravityScale |-> 0]

\* ------------------------------------------------ settle detector
\* checkSimulationAutoReset: bodies whose speed is examined
TrackedBodies(targets) == {BEAVER} \cup DynamicTypeBodies(targets)

\* checkSimulationAutoReset: the isMoving scan
IsMoving(targets, w) ==
    \E b \in TrackedBodies(targets) :
        LinSpeed(w, b) > BALL_STOP_SPEED \/ AngSpeed(w, b) > SIM_STOP_ANGULAR_SPEED

\* movement not clearing a pending timestamp
SettleTimestamp_KeepOnMove(moving, stoppedAt, timeMs) ==
    IF stoppedAt # NULL THEN stoppedAt
    ELSE IF moving THEN NULL ELSE timeMs

\* checkSimulationAutoReset: simStoppedAtMs after the moving / settled branch
SettleTimestamp(moving, stoppedAt, timeMs) ==
    IF moving THEN NULL
    ELSE IF stoppedAt = NULL THEN timeMs ELSE stoppedAt

\* checkSimulationAutoReset: the idle reset test
IdleElapsed(stoppedAt, timeMs) ==
    stoppedAt # NULL /\ timeMs - stoppedAt >= BALL_RESET_DELAY_MS

\* the fallback firing only after more than the timeout
FallbackElapsed_Strict(launchAt, timeMs) ==
    launchAt # NULL /\ timeMs - launchAt > FALLBACK_RESET_MS

\* checkSimulationAutoReset: the fallback test
FallbackElapsed(launchAt, timeMs) ==
    launchAt # NULL /\ timeMs - launchAt >= FALLBACK_RESET_MS

\* the detector without its level-complete test
CheckSimulationAutoReset_IgnoreComplete(complete, launched, stoppedAt, launchAt, timeMs, targets, w) ==
    IF ~launched THEN [reset |-> "none", stoppedAt |-> NULL]
    ELSE IF FallbackElapsed(launchAt, timeMs)
    THEN [reset |-> "fallback", stoppedAt |-> NULL]
    ELSE [reset |-> "none", stoppedAt |-> stoppedAt]

\* checkSimulationAutoReset: which reset fires and the timestamp it leaves
CheckSimulationAutoReset(complete, launched, stoppedAt, launchAt, timeMs, targets, w) ==
    IF complete THEN [reset |-> "none", stoppedAt |-> stoppedAt]
    ELSE IF ~launched THEN [reset |-> "none", stoppedAt |-> NULL]
    ELSE LET moving == IsMoving(targets, w)
             s1 == SettleTimestamp(moving, stoppedAt, timeMs)
         IN  IF ~moving /\ IdleElapsed(s1, timeMs)
             THEN [reset |-> "idle", stoppedAt |-> NULL]
             ELSE IF FallbackElapsed(launchAt, timeMs)
             THEN [reset |-> "fallback", stoppedAt |-> NULL]
             ELSE [reset |-> "none", stoppedAt |-> s1]


\* ------------------------------------------------------------ actions
\* Class field initialisers of MainScene, before any scene has started.
Init ==
    /\ scene = "SettingsScene"
    /\ sceneOp = "none"
    /\ levelIndex = 0
    /\ towerTargets = << >>
    /\ hasLaunched = FALSE
    /\ levelComplete = FALSE
    /\ simStoppedAtMs = NULL
    /\ launchTimeMs = NULL
    /\ catapultProblem = NULL
    /\ answerInputValue = << >>
    /\ towerBallTotal = 0
    /\ towerBallDown = 0
    /\ now = 0
    /\ frame = 0
    /\ world = RestWorld(<< >>)
    /\ wokenBodies = {}
    /\ impactBodies = {}
    /\ resetLog = "none"
    /\ score = 0
    /\ scoredBodies = {}
    /\ ballBody = NoBall
    /\ levelConfig = LEVELS[1]
    /\ towerLibrary = TOWER_LIBRARY
    /\ parabola = NoParabola
    /\ aimAngle = PERFECT_SHOT_ANGLE_DEG
    /\ aimPower = 750
    /\ maxAimPower = 1500
    /\ cursors = {}
    /\ upgradeState = 0
    /\ upgradeProblems = NULL
    /\ gameState = ResetGameState
    /\ upgradeAnswers = UntypedAnswers
    /\ activeTowerDefs = {}

\* the scene object reused without clearing its score
MainSceneInit_KeepScore == [score |-> score, scoredBodies |-> scoredBodies]

\* init: this.score = 0; this.scoredBodies.clear()
MainSceneInit == [score |-> 0, scoredBodies |-> {}]

\* no problem put on the catapult
CreateCatapultProblem_None == {NULL}

\* createCatapultProblem: the problems that can be put on the catapult
CreateCatapultProblem == Answers

\* init(data) followed by create(): a fresh attempt at level index k, whose
\* configuration is cfg, with gs the gameState object at that moment
MainSceneCreate(k, cfg, gs) ==
    /\ scene' = "MainScene"
    /\ sceneOp' = "none"
    /\ levelIndex' = k
    /\ gameState' = [gs EXCEPT !.levelIndex = k]
    /\ upgradeState' = gs.upgrades
    /\ aimAngle' = PERFECT_SHOT_ANGLE_DEG
    /\ maxAimPower' = cfg.perfectShotPower * 2
    \* applyBeaverStats
    /\ aimPower' = Clamp(cfg.perfectShotPower, AIM_POWER_MIN, cfg.perfectShotPower * 2)
    /\ activeTowerDefs' = GetLevelTowerDefinitions(towerLibrary, cfg.towerIds)
    /\ parabola' = GenerateParabolaLevel(cfg, PERFECT_SHOT_ANGLE_DEG, GRAVITY_Y)
    /\ LET platforms == DOMAIN parabola'.times
       IN  \E specs \in [platforms -> activeTowerDefs'] :
           \E problems \in [platforms -> Answers] :
              towerTargets' = [i \in platforms |-> SpawnTarget(specs[i], problems[i])]
    /\ hasLaunched' = FALSE
    /\ levelComplete' = FALSE
    /\ simStoppedAtMs' = NULL
    /\ launchTimeMs' = NULL
    /\ \E a \in CreateCatapultProblem : catapultProblem' = a
    /\ answerInputValue' = << >>
    /\ towerBallTotal' = CountBalls(towerTargets')
    /\ towerBallDown' = 0
    /\ world' = RestWorld(towerTargets')
    /\ wokenBodies' = {}
    /\ impactBodies' = {}
    /\ resetLog' = "none"
    /\ score' = MainSceneInit.score
    /\ scoredBodies' = MainSceneInit.scoredBodies
    /\ ballBody' = CreatePlayerBall
    /\ levelConfig' = cfg
    \* createUpgradeProblems
    /\ \E u \in RefreshUpgradeProblem(gs.upgrades, upgradeAnswers) : upgradeProblems' = u
    /\ UNCHANGED << now, frame, towerLibrary, cursors, upgradeAnswers >>

\* scene.restart({levelIndex: k}) carried out
StartLevel(k) == MainSceneCreate(k, LEVELS[k + 1], gameState)

\* SettingsScene.startGame for selectedLevel = k: resetGameState, then
\* scene.start('MainScene', {levelIndex: k})
StartGameAt(k) == MainSceneCreate(k, LEVELS[k + 1], ResetGameState)

\* SettingsScene.startGame: Enter on the settings screen
StartGame ==
    /\ scene = "SettingsScene"
    /\ \E k \in 0..(Len(LEVELS) - 1) : StartGameAt(k)

\* The scene manager runs its queued operation before the next frame.
SceneRestart ==
    /\ scene = "MainScene"
    /\ sceneOp # "none"
    /\ CASE sceneOp = "restart" -> StartLevel(levelIndex)
         [] sceneOp = "next" -> StartLevel(levelIndex + 1)
         [] sceneOp = "settings" ->
               /\ scene' = "SettingsScene"
               /\ sceneOp' = "none"
               /\ UNCHANGED << levelIndex, towerTargets, hasLaunched, levelComplete,
                               simStoppedAtMs, launchTimeMs, catapultProblem,
                               answerInputValue, towerBallTotal, towerBallDown, now,
                               frame, world, wokenBodies, impactBodies, resetLog, score, scoredBodies, ballBody, levelConfig, towerLibrary, parabola, aimVars, upgradeVars, activeTowerDefs >>

Playing == scene = "MainScene" /\ sceneOp = "none"

\* the first level taken for the last one
IsLastLevel_First(k) == k = 0

\* advanceLevel: isLastLevel
IsLastLevel(k) == k >= Len(LEVELS) - 1

\* advanceLevel
AdvanceLevel ==
    /\ levelComplete
    /\ sceneOp' = IF IsLastLevel(levelIndex) THEN "settings" ELSE "next"
    /\ gameState' = IF IsLastLevel(levelIndex) THEN gameState
                    ELSE [gameState EXCEPT !.levelIndex = levelIndex + 1]
    /\ UNCHANGED << scene, levelIndex, towerTargets, hasLaunched, levelComplete,
                    simStoppedAtMs, launchTimeMs, catapultProblem, answerInputValue,
                    towerBallTotal, towerBallDown, now, frame, world, wokenBodies,
                    impactBodies, resetLog, score, scoredBodies, ballBody, levelConfig,
                    towerLibrary, parabola, aimVars, upgradeState, upgradeProblems,
                    upgradeAnswers, activeTowerDefs >>

\* a launch for any submitted answer
LaunchAccepted_AnyAnswer(launched, problem, value) == ~launched /\ problem # NULL

\* submitAnswer's launch test
LaunchAccepted(launched, problem, value) ==
    ~launched /\ problem # NULL /\ CheckAnswer(problem, value)

\* submitAnswer (with launch inlined)
SubmitAnswer ==
    /\ answerInputValue # << >>
    /\ LET value == NumberOf(answerInputValue)
           \* tryUpgrade, applyUpgrade
           upgrading == TryUpgrade(upgradeProblems, value)
           level == IF upgrading THEN ApplyUpgrade(upgradeState) ELSE upgradeState
           applied == level # upgradeState
           \* applyBeaverStats
           power == IF applied THEN Clamp(aimPower, AIM_POWER_MIN, maxAimPower) ELSE aimPower
           launching == LaunchAccepted(hasLaunched, catapultProblem, value)
       IN  /\ upgradeState' = level
           /\ gameState' = IF applied THEN [gameState EXCEPT !.upgrades = level] ELSE gameState
           /\ \E u \in (IF applied THEN RefreshUpgradeProblem(level, upgradeAnswers)
                         ELSE {upgradeProblems}) : upgradeProblems' = u
           /\ aimPower' = power
           /\ towerTargets' = SubmitUnfreeze(towerTargets, value)
           /\ hasLaunched' = (hasLaunched \/ launching)
           /\ simStoppedAtMs' = IF launching THEN NULL ELSE simStoppedAtMs
           /\ launchTimeMs' = IF launching THEN now ELSE launchTimeMs
           /\ catapultProblem' = IF launching THEN NULL ELSE catapultProblem
           /\ ballBody' = IF launching
                          THEN LaunchBall(ballBody, power)
                          ELSE ballBody
    /\ answerInputValue' = << >>
    /\ UNCHANGED << scene, sceneOp, levelIndex, levelComplete, towerBallTotal,
                    towerBallDown, now, frame, world, wokenBodies, impactBodies,
                    resetLog, score, scoredBodies, levelConfig, towerLibrary, parabola,
                    aimAngle, maxAimPower, cursors, upgradeAnswers, activeTowerDefs >>

\* handleAnswerKey: one keydown event
HandleAnswerKey(key) ==
    /\ Playing
    /\ IF levelComplete
       THEN key = "Enter" /\ AdvanceLevel
       ELSE CASE key = "Enter" -> SubmitAnswer
              [] key = "Backspace" ->
                    /\ answerInputValue # << >>
                    /\ answerInputValue' = SubSeq(answerInputValue, 1, Len(answerInputValue) - 1)
                    /\ UNCHANGED << scene, sceneOp, levelIndex, towerTargets, hasLaunched,
                                    levelComplete, simStoppedAtMs, launchTimeMs,
                                    catapultProblem, towerBallTotal, towerBallDown, now,
                                    frame, world, wokenBodies, impactBodies, resetLog, score, scoredBodies, ballBody, levelConfig, towerLibrary, parabola, aimVars, upgradeVars, activeTowerDefs >>
              [] key = "Escape" ->
                    /\ answerInputValue # << >>
                    /\ answerInputValue' = << >>
                    /\ UNCHANGED << scene, sceneOp, levelIndex, towerTargets, hasLaunched,
                                    levelComplete, simStoppedAtMs, launchTimeMs,
                                    catapultProblem, towerBallTotal, towerBallDown, now,
                                    frame, world, wokenBodies, impactBodies, resetLog, score, scoredBodies, ballBody, levelConfig, towerLibrary, parabola, aimVars, upgradeVars, activeTowerDefs >>
              [] key \in DigitKeys ->
                    /\ Len(answerInputValue) < MaxInputLen
                    /\ answerInputValue' = Append(answerInputValue, key)
                    /\ UNCHANGED << scene, sceneOp, levelIndex, towerTargets, hasLaunched,
                                    levelComplete, simStoppedAtMs, launchTimeMs,
                                    catapultProblem, towerBallTotal, towerBallDown, now,
                                    frame, world, wokenBodies, impactBodies, resetLog, score, scoredBodies, ballBody, levelConfig, towerLibrary, parabola, aimVars, upgradeVars, activeTowerDefs >>

Keys == {"Enter", "Backspace", "Escape"} \cup DigitKeys

\* pointerdown on the cheat button
CheatButton ==
    /\ Playing
    /\ towerTargets' = UnfreezeAllTowers(towerTargets)
    /\ towerTargets' # towerTargets
    /\ UNCHANGED << scene, sceneOp, levelIndex, hasLaunched, levelComplete,
                    simStoppedAtMs, launchTimeMs, catapultProblem, answerInputValue,
                    towerBallTotal, towerBallDown, now, frame, world, wokenBodies,
                    impactBodies, resetLog, score, scoredBodies, ballBody, levelConfig, towerLibrary, parabola, aimVars, upgradeVars, activeTowerDefs >>

\* One frame: the physics step leaves world w, the clock advances by delta,
\* then update(time) runs.  rJustDown: the R key went down this frame.
Tick(delta, w, rJustDown) ==
    /\ Playing
    /\ frame' = frame + 1
    /\ now' = now + delta
    /\ world' = w
    \* handleInput
    /\ sceneOp' = IF rJustDown /\ (levelComplete \/ hasLaunched) THEN "restart" ELSE "none"
    /\ LET aim == HandleInputAim(levelComplete, hasLaunched, aimAngle, aimPower,
                                 maxAimPower, cursors)
       IN  aimAngle' = aim.aimAngle /\ aimPower' = aim.aimPower
    /\ LET \* checkTowerActivations
           t1 == CheckTowerActivations(towerTargets, hasLaunched, w)
           \* checkTowerGroundHits
           g == CheckTowerGroundHits(t1, score, scoredBodies, w)
           stepped == StepBall(ballBody, w)
           \* checkLevelCompletion
           t2 == IF levelComplete THEN t1 ELSE MarkBallsDown(t1, w)
           total == CountBalls(t2)
           down == CountDown(t2)
           completes == ~levelComplete /\ LevelCompletes(total, down)
           complete1 == levelComplete \/ completes
           \* checkSimulationAutoReset
           r == CheckSimulationAutoReset(complete1, hasLaunched, simStoppedAtMs,
                                         launchTimeMs, now', t2, w)
       IN  /\ towerTargets' = t2
           /\ impactBodies' = ImpactBodies(hasLaunched, towerTargets)
           /\ wokenBodies' = UNION { WakeUpBodies(towerTargets, i) :
                                       i \in { k \in DOMAIN towerTargets :
                                                 towerTargets[k].state # "dynamic"
                                                 /\ t1[k].state = "dynamic" } }
           /\ towerBallTotal' = IF levelComplete THEN towerBallTotal ELSE total
           /\ towerBallDown' = IF levelComplete THEN towerBallDown ELSE down
           /\ levelComplete' = complete1
           /\ score' = g.score
           /\ scoredBodies' = g.scoredBodies
           /\ resetLog' = r.reset
           /\ simStoppedAtMs' = r.stoppedAt
           /\ IF r.reset # "none"
              THEN \* resetBallToCatapult
                   /\ hasLaunched' = FALSE
                   /\ \E a \in CreateCatapultProblem : catapultProblem' = a
                   /\ answerInputValue' = << >>
                   /\ ballBody' = ResetBallToCatapult(stepped)
              ELSE /\ hasLaunched' = hasLaunched
                   /\ ballBody' = stepped
                   /\ catapultProblem' = catapultProblem
                   /\ answerInputValue' = IF completes THEN << >> ELSE answerInputValue
    /\ UNCHANGED << scene, levelIndex, launchTimeMs, levelConfig, towerLibrary, parabola,
                    maxAimPower, cursors, upgradeVars, activeTowerDefs >>

KeyDown == \E key \in Keys : HandleAnswerKey(key)

\* The R key can only have gone down in a frame that reads it.
RKey == { r \in BOOLEAN : r => (levelComplete \/ hasLaunched) }

\* Frames of the tower state machine: any contacts, coarse clock.
Frame ==
    /\ frame < MaxFrames
    /\ \E delta \in TickDeltas :
         \E w \in Worlds(towerTargets, ImpactPairs(towerTargets), {}, {}) :
           \E r \in RKey : Tick(delta, w, r)

Next ==
    \/ StartGame
    \/ SceneRestart
    \/ KeyDown
    \/ CheatButton
    \/ Frame

Spec == Init /\ [][Next]_vars

\* ------------------------------------------- settle / completion frames
\* The player picks level-1 on the settings screen.
StartFirstLevel ==
    /\ scene = "SettingsScene"
    /\ StartGameAt(0)

\* Contacts on offer in settle frames: the beaver on the first tower's plank.
SettlePairs(targets) ==
    { {BEAVER, b} : b \in { c \in AllTowerBodies(targets) : c = <<1, 1>> } }

\* Frames of the settle detector: any speeds around the thresholds, fine clock.
SettleFrame ==
    /\ frame < MaxSettleFrames
    /\ \E delta \in SettleDeltas :
         \E w \in Worlds(towerTargets, SettlePairs(towerTargets), SettleSpeeds, {}) :
           Tick(delta, w, FALSE)

NextSettle ==
    \/ StartFirstLevel
    \/ KeyDown
    \/ SettleFrame

SpecSettle == Init /\ [][NextSettle]_vars

\* ------------------------------------------ scoring / completion frames
\* As Init, with any of the tower spec directories on offer.
InitScore ==
    /\ scene = "SettingsScene"
    /\ sceneOp = "none"
    /\ levelIndex = 0
    /\ towerTargets = << >>
    /\ hasLaunched = FALSE
    /\ levelComplete = FALSE
    /\ simStoppedAtMs = NULL
    /\ launchTimeMs = NULL
    /\ catapultProblem = NULL
    /\ answerInputValue = << >>
    /\ towerBallTotal = 0
    /\ towerBallDown = 0
    /\ now = 0
    /\ frame = 0
    /\ world = RestWorld(<< >>)
    /\ wokenBodies = {}
    /\ impactBodies = {}
    /\ resetLog = "none"
    /\ score = 0
    /\ scoredBodies = {}
    /\ ballBody = NoBall
    /\ levelConfig = LEVELS[1]
    /\ towerLibrary \in ScoreLibraries
    /\ parabola = NoParabola
    /\ aimAngle = PERFECT_SHOT_ANGLE_DEG
    /\ aimPower = 750
    /\ maxAimPower = 1500
    /\ cursors = {}
    /\ upgradeState = 0
    /\ upgradeProblems = NULL
    /\ gameState = ResetGameState
    /\ upgradeAnswers = UntypedAnswers
    /\ activeTowerDefs = {}

\* A body that can move (type Dynamic) can come to touch the floor.
FloorPairs(targets) == { {b, FLOOR} : b \in DynamicTypeBodies(targets) }

\* Contacts on offer in scoring frames.
ScorePairs(targets) == SettlePairs(targets) \cup FloorPairs(targets)

\* Frames of the scoring and completion passes: floor contacts, balls at any
\* of the heights, coarse clock, R key.
ScoreFrame ==
    /\ frame < MaxScoreFrames
    /\ \E delta \in TickDeltas :
         \E w \in Worlds(towerTargets, ScorePairs(towerTargets), {}, ScoreHeights) :
           \E r \in RKey : Tick(delta, w, r)

NextScore ==
    \/ StartFirstLevel
    \/ SceneRestart
    \/ KeyDown
    \/ CheatButton
    \/ ScoreFrame

SpecScore == InitScore /\ [][NextScore]_vars

\* ------------------------------------------------ the layout generator
\* As Init, with any level configuration on offer.
InitTrajectory ==
    /\ scene = "SettingsScene"
    /\ sceneOp = "none"
    /\ levelIndex = 0
    /\ towerTargets = << >>
    /\ hasLaunched = FALSE
    /\ levelComplete = FALSE
    /\ simStoppedAtMs = NULL
    /\ launchTimeMs = NULL
    /\ catapultProblem = NULL
    /\ answerInputValue = << >>
    /\ towerBallTotal = 0
    /\ towerBallDown = 0
    /\ now = 0
    /\ frame = 0
    /\ world = RestWorld(<< >>)
    /\ wokenBodies = {}
    /\ impactBodies = {}
    /\ resetLog = "none"
    /\ score = 0
    /\ scoredBodies = {}
    /\ ballBody = NoBall
    /\ levelConfig \in TrajectoryConfigs
    /\ towerLibrary = TrajectoryLibrary
    /\ parabola = NoParabola
    /\ aimAngle = PERFECT_SHOT_ANGLE_DEG
    /\ aimPower = 750
    /\ maxAimPower = 1500
    /\ cursors = {}
    /\ upgradeState = 0
    /\ upgradeProblems = NULL
    /\ gameState = ResetGameState
    /\ upgradeAnswers = UntypedAnswers
    /\ activeTowerDefs = {}

\* generateParabolaLevel applied to the level configuration
GenerateLevel ==
    /\ scene = "SettingsScene"
    /\ \E angleDeg \in TrajectoryAngles : \E g \in TrajectoryGravities :
          parabola' = GenerateParabolaLevel(levelConfig, angleDeg, g)
    /\ UNCHANGED << scene, sceneOp, levelIndex, towerTargets, hasLaunched, levelComplete,
                    simStoppedAtMs, launchTimeMs, catapultProblem, answerInputValue,
                    towerBallTotal, towerBallDown, now, frame, world, wokenBodies,
                    impactBodies, resetLog, score, scoredBodies, ballBody, levelConfig,
                    towerLibrary, aimVars, upgradeVars, activeTowerDefs >>

\* startGame on a game whose first level has the drawn configuration
StartDrawnLevel ==
    /\ scene = "SettingsScene"
    /\ MainSceneCreate(0, levelConfig, ResetGameState)

NextTrajectory ==
    \/ GenerateLevel
    \/ StartDrawnLevel

SpecTrajectory == InitTrajectory /\ [][NextTrajectory]_vars


\* ------------------------------------------------------- aiming frames
\* As Init, with a cursor key held down and upgrade problems the digit keys
\* can answer.
InitAim ==
    /\ scene = "SettingsScene"
    /\ sceneOp = "none"
    /\ levelIndex = 0
    /\ towerTargets = << >>
    /\ hasLaunched = FALSE
    /\ levelComplete = FALSE
    /\ simStoppedAtMs = NULL
    /\ launchTimeMs = NULL
    /\ catapultProblem = NULL
    /\ answerInputValue = << >>
    /\ towerBallTotal = 0
    /\ towerBallDown = 0
    /\ now = 0
    /\ frame = 0
    /\ world = RestWorld(<< >>)
    /\ wokenBodies = {}
    /\ impactBodies = {}
    /\ resetLog = "none"
    /\ score = 0
    /\ scoredBodies = {}
    /\ ballBody = NoBall
    /\ levelConfig = LEVELS[1]
    /\ towerLibrary = TOWER_LIBRARY
    /\ parabola = NoParabola
    /\ aimAngle = PERFECT_SHOT_ANGLE_DEG
    /\ aimPower = 750
    /\ maxAimPower = 1500
    /\ cursors \in AimCursors
    /\ upgradeState = 0
    /\ upgradeProblems = NULL
    /\ gameState = ResetGameState
    /\ upgradeAnswers = Answers
    /\ activeTowerDefs = {}

\* Frames of aiming: nothing moves, coarse clock, R key.
AimFrame ==
    /\ frame < AimFrames + AimTypingFrames
    /\ \E delta \in TickDeltas : \E r \in RKey :
          Tick(delta, RestWorld(towerTargets), r)

\* The player aims first and types afterwards.
AimKeyDown ==
    /\ frame >= AimFrames
    /\ KeyDown

NextAim ==
    \/ StartFirstLevel
    \/ SceneRestart
    \/ AimKeyDown
    \/ AimFrame

SpecAim == InitAim /\ [][NextAim]_vars


\* ------------------------------------------- upgrade / advance frames
\* As Init, with upgrade problems the digit keys can answer.
InitAdvance ==
    /\ scene = "SettingsScene"
    /\ sceneOp = "none"
    /\ levelIndex = 0
    /\ towerTargets = << >>
    /\ hasLaunched = FALSE
    /\ levelComplete = FALSE
    /\ simStoppedAtMs = NULL
    /\ launchTimeMs = NULL
    /\ catapultProblem = NULL
    /\ answerInputValue = << >>
    /\ towerBallTotal = 0
    /\ towerBallDown = 0
    /\ now = 0
    /\ frame = 0
    /\ world = RestWorld(<< >>)
    /\ wokenBodies = {}
    /\ impactBodies = {}
    /\ resetLog = "none"
    /\ score = 0
    /\ scoredBodies = {}
    /\ ballBody = NoBall
    /\ levelConfig = LEVELS[1]
    /\ towerLibrary = TOWER_LIBRARY
    /\ parabola = NoParabola
    /\ aimAngle = PERFECT_SHOT_ANGLE_DEG
    /\ aimPower = 750
    /\ maxAimPower = 1500
    /\ cursors = {}
    /\ upgradeState = 0
    /\ upgradeProblems = NULL
    /\ gameState = ResetGameState
    /\ upgradeAnswers = Answers
    /\ activeTowerDefs = {}

\* Contacts on offer in these frames: the beaver on the first body of a tower.
AdvancePairs(targets) == { {BEAVER, <<i, 1>>} : i \in DOMAIN targets }

\* Ball centre height on offer once a ball can move: below the platform.
AdvanceHeights == { PLATFORM_SURFACE_Y + PLATFORM_HEIGHT }

\* Frames in which levels are completed: coarse clock, R key.
AdvanceFrame ==
    /\ frame < MaxAdvanceFrames
    /\ \E delta \in TickDeltas :
         \E w \in Worlds(towerTargets, AdvancePairs(towerTargets), {}, AdvanceHeights) :
           \E r \in RKey : Tick(delta, w, r)

NextAdvance ==
    \/ StartGame
    \/ SceneRestart
    \/ KeyDown
    \/ AdvanceFrame

SpecAdvance == InitAdvance /\ [][NextAdvance]_vars


\* ================================================================ claims
IsTick == Playing /\ frame' = frame + 1
Towers == DOMAIN towerTargets
StateOf(i) == towerTargets[i].state
Rank(st) == CASE st = "frozen" -> 0 [] st = "unfrozen" -> 1 [] st = "dynamic" -> 2
BecomesDynamic(i) == StateOf(i) # "dynamic" /\ towerTargets'[i].state = "dynamic"
Touches(w, as, bs) == \E a \in as : \E b \in bs : {a, b} \in w.contacts
BodiesOf(i) == { <<i, j>> : j \in 1..Len(towerTargets[i].spec) }

\* C1: within one level attempt (any keydown, cheat press or tick taken while
\* the scene is playing) no tower's state moves backwards in the order
\* frozen, unfrozen, dynamic.
C1_StateMonotone ==
    [][Playing =>
         /\ DOMAIN towerTargets' = Towers
         /\ \A i \in Towers : Rank(towerTargets'[i].state) >= Rank(StateOf(i))]_vars

\* C1 witness: a tower is dynamic right after a tick that reset the projectile.
C1_Witness ==
    /\ Playing
    /\ resetLog # "none"
    /\ \E i \in Towers : StateOf(i) = "dynamic"

\* C2: a tower becomes dynamic only from unfrozen, and a tick leaves a frozen
\* tower frozen, also when one of its bodies touches an impactor.
C2_FrozenIgnoresContact ==
    [][Playing =>
         \A i \in Towers :
            /\ BecomesDynamic(i) => StateOf(i) = "unfrozen"
            /\ (IsTick /\ StateOf(i) = "frozen") => towerTargets'[i].state = "frozen"]_vars

\* C2 witness: after a tick, a frozen tower is touching a body of that tick's
\* impactor list.
C2_Witness ==
    /\ Playing
    /\ frame > 0
    /\ \E i \in Towers :
          StateOf(i) = "frozen" /\ Touches(world, impactBodies, BodiesOf(i))

\* A step that submits an answer which is correct for tower i's problem.
SubmitsCorrectFor(i) ==
    /\ frame' = frame
    /\ answerInputValue # << >>
    /\ answerInputValue' = << >>
    /\ NumberOf(answerInputValue) = towerTargets[i].problem

\* A step of the cheat button: every frozen tower is unfrozen, nothing else moves.
CheatStep ==
    /\ \A k \in Towers : StateOf(k) = "frozen" => towerTargets'[k].state = "unfrozen"
    /\ UNCHANGED << answerInputValue, hasLaunched, catapultProblem, frame >>

LeavesFrozen(i) == StateOf(i) = "frozen" /\ towerTargets'[i].state # "frozen"

\* C3 as stated: a tower leaves frozen only in a step that submits an answer
\* correct for that tower's own problem.
C3_OnlyByAnswer ==
    [][Playing => \A i \in Towers : LeavesFrozen(i) => SubmitsCorrectFor(i)]_vars

\* C3 amended: a tower leaves frozen only in a step that submits an answer
\* correct for that tower's own problem, or in a press of the cheat button.
C3_OnlyByAnswerOrCheat ==
    [][Playing =>
         \A i \in Towers : LeavesFrozen(i) => (SubmitsCorrectFor(i) \/ CheatStep)]_vars

\* C3 witness: before any tick, one tower of a two-tower level has been
\* unfrozen while the other, with a different problem, is still frozen.
C3_Witness ==
    /\ Playing
    /\ Len(towerTargets) = 2
    /\ \E i, k \in Towers :
          /\ StateOf(i) = "unfrozen"
          /\ StateOf(k) = "frozen"
          /\ towerTargets[i].problem # towerTargets[k].problem

\* C4 as stated: in a tick, when a tower made dynamic by the pass touches an
\* unfrozen tower examined later in the same pass, the later tower is dynamic
\* at the end of that tick.
C4_SameTickCascade ==
    [][IsTick =>
         \A i, k \in Towers :
            (/\ i < k
             /\ BecomesDynamic(i)
             /\ StateOf(k) = "unfrozen"
             /\ Touches(world', BodiesOf(i), BodiesOf(k)))
            => towerTargets'[k].state = "dynamic"]_vars

\* C5: a tick in which the launched projectile touches a body of an unfrozen
\* tower ends with that tower dynamic, all its bodies of type Dynamic and woken.
C5_ProjectileHitActivates ==
    [][IsTick =>
         \A i \in Towers :
            (/\ hasLaunched
             /\ StateOf(i) = "unfrozen"
             /\ Touches(world', {BEAVER}, BodiesOf(i)))
            => /\ towerTargets'[i].state = "dynamic"
               /\ \A j \in 1..Len(towerTargets'[i].spec) :
                     towerTargets'[i].bodyType[j] = "Dynamic"
               /\ BodiesOf(i) \subseteq wokenBodies']_vars

\* C5 witness: after a tick the beaver, an impactor of that tick, touches a
\* tower that the tick made dynamic and woke.
C5_Witness ==
    /\ Playing
    /\ BEAVER \in impactBodies
    /\ \E i \in Towers :
          /\ StateOf(i) = "dynamic"
          /\ Touches(world, {BEAVER}, BodiesOf(i))
          /\ BodiesOf(i) \subseteq wokenBodies

\* The impactor set the claim describes, for the state a tick starts in.
ExpectedImpactors ==
    (IF hasLaunched THEN {BEAVER} ELSE {})
    \cup { b \in AllTowerBodies(towerTargets) : StateOf(b[1]) = "dynamic" }

\* C6: a tick's impactor set is the projectile iff launched plus the bodies of
\* the dynamic towers: an unfrozen tower becomes dynamic in the tick exactly
\* when it touches a member of that set, and nothing becomes dynamic when the
\* projectile is staged and no tower is dynamic.
C6_ImpactorSet ==
    [][IsTick =>
         /\ impactBodies' = ExpectedImpactors
         /\ \A i \in Towers :
               BecomesDynamic(i) <=>
                  (StateOf(i) = "unfrozen" /\ Touches(world', ExpectedImpactors, BodiesOf(i)))
         /\ (~hasLaunched /\ \A i \in Towers : StateOf(i) # "dynamic")
               => \A i \in Towers : ~BecomesDynamic(i)]_vars

\* C6 witness: a tick with the projectile staged in which a dynamic tower's
\* body set off another tower.
C6_Witness ==
    /\ Playing
    /\ BEAVER \notin impactBodies
    /\ impactBodies # {}
    /\ wokenBodies # {}

\* C7: bodies of a frozen or unfrozen tower are all Fixed, bodies of a dynamic
\* tower are all Dynamic, and the settle detector's tower bodies are exactly
\* the bodies of the dynamic towers.
C7_BodyTypeFollowsState ==
    /\ \A i \in Towers : \A j \in 1..Len(towerTargets[i].spec) :
          towerTargets[i].bodyType[j] =
             (IF StateOf(i) = "dynamic" THEN "Dynamic" ELSE "Fixed")
    /\ TrackedBodies(towerTargets) \ {BEAVER} =
          { b \in AllTowerBodies(towerTargets) : StateOf(b[1]) = "dynamic" }

\* C7 witness: a level with a dynamic tower next to one that is still fixed.
C7_Witness ==
    /\ Playing
    /\ \E i, k \in Towers : StateOf(i) = "dynamic" /\ StateOf(k) # "dynamic"

\* C8: a tower has its question text exactly while it is frozen, and a frozen
\* tower has a problem.
C8_QuestionWhileFrozen ==
    \A i \in Towers :
       /\ towerTargets[i].questionText <=> (StateOf(i) = "frozen")
       /\ StateOf(i) = "frozen" => towerTargets[i].problem \in Answers

\* C8 witness: all towers of a two-tower level with different problems are
\* unfrozen before any answer could have matched both.
C8_Witness ==
    /\ Playing
    /\ Len(towerTargets) = 2
    /\ towerTargets[1].problem # towerTargets[2].problem
    /\ \A i \in Towers : StateOf(i) = "unfrozen" /\ ~towerTargets[i].questionText
    /\ ~hasLaunched
    /\ catapultProblem # NULL

\* A tracked body (projectile, or body of a tower that is dynamic when the
\* detector runs) is above the linear or the angular threshold.
MovingAfterStep ==
    \E b \in {BEAVER} \cup { c \in AllTowerBodies(towerTargets') :
                               towerTargets'[c[1]].state = "dynamic" } :
        \/ LinSpeed(world', b) > BALL_STOP_SPEED
        \/ AngSpeed(world', b) > SIM_STOP_ANGULAR_SPEED

DetectorRuns == IsTick /\ hasLaunched /\ ~levelComplete'

\* C9: in a tick where the detector runs, movement clears the settle
\* timestamp and does not reset; the first settled tick records the tick's
\* time; a recorded timestamp is kept while settled; and the idle reset fires
\* only in a settled tick at least BALL_RESET_DELAY_MS after a timestamp
\* recorded by an earlier tick.
C9_SettleReset ==
    [][(DetectorRuns =>
          /\ MovingAfterStep => (simStoppedAtMs' = NULL /\ resetLog' # "idle")
          /\ (~MovingAfterStep /\ simStoppedAtMs = NULL) =>
                /\ resetLog' # "idle"
                /\ resetLog' = "none" => simStoppedAtMs' = now'
          /\ (~MovingAfterStep /\ simStoppedAtMs # NULL /\ resetLog' = "none") =>
                simStoppedAtMs' = simStoppedAtMs)
       /\ (IsTick /\ resetLog' = "idle" =>
             /\ DetectorRuns
             /\ ~MovingAfterStep
             /\ simStoppedAtMs # NULL
             /\ now' - simStoppedAtMs >= BALL_RESET_DELAY_MS)]_vars

\* C9 witness: an idle reset has just fired, before the fallback was due.
C9_Witness ==
    /\ Playing
    /\ resetLog = "idle"
    /\ ~hasLaunched
    /\ now - launchTimeMs < FALLBACK_RESET_MS

\* C10: while the level is not complete a launched projectile is never older
\* than 7000 ms at the end of a tick, the age being counted from the launch
\* that set the flag.
C10_FallbackBound ==
    /\ [](scene = "MainScene" /\ hasLaunched /\ ~levelComplete =>
             launchTimeMs # NULL /\ launchTimeMs <= now
             /\ now - launchTimeMs < FALLBACK_RESET_MS)
    /\ [][(~hasLaunched /\ hasLaunched') => launchTimeMs' = now]_vars

\* C10 witness: the fallback reset fired in a tick in which the projectile
\* was still moving, 7000 ms after a launch made later than the scene's start.
C10_Witness ==
    /\ Playing
    /\ resetLog = "fallback"
    /\ ~hasLaunched
    /\ world.motion.mover = BEAVER
    /\ world.motion.lin > BALL_STOP_SPEED
    /\ launchTimeMs > 0
    /\ now - launchTimeMs >= FALLBACK_RESET_MS

\* C11: a tick that fires an automatic reset ends with the projectile staged:
\* launched flag false, linear and angular speed zero, position at the
\* catapult anchor, gravity scale 0, settle timestamp cleared, a catapult
\* problem set where there was none, and the answer input buffer empty.
C11_ResetStagesProjectile ==
    [][(IsTick /\ resetLog' # "none") =>
         /\ ~hasLaunched'
         /\ ballBody'.lin = 0
         /\ ballBody'.ang = 0
         /\ ballBody'.pos = "anchor"
         /\ ballBody'.gravityScale = 0
         /\ simStoppedAtMs' = NULL
         /\ catapultProblem = NULL
         /\ catapultProblem' \in Answers
         /\ answerInputValue' = << >>]_vars

\* C11 witness: a reset has just fired in a tick whose physics step saw the
\* projectile in flight and moving; the projectile is staged and at rest.
C11_Witness ==
    /\ Playing
    /\ resetLog # "none"
    /\ world.motion.mover = BEAVER
    /\ world.motion.lin > 0
    /\ ballBody = CreatePlayerBall
    /\ catapultProblem \in Answers

\* ---- per-level state, as the claims speak of it
IsDown(b) == towerTargets[b[1]].isDown[b[2]]
Balls == BallIds(towerTargets)
Planks == AllTowerBodies(towerTargets) \ Balls

\* All per-level state as create() leaves it.
FreshLevel ==
    /\ \A i \in Towers : StateOf(i) = "frozen"
    /\ \A b \in Balls : ~IsDown(b)
    /\ score = 0
    /\ scoredBodies = {}
    /\ towerBallDown = 0
    /\ ~levelComplete

\* The scene manager runs the restart queued by the R key.
ManualRestartStep == scene = "MainScene" /\ sceneOp = "restart" /\ sceneOp' = "none"
\* A tick in which the settle detector or the fallback resets the projectile.
AutoResetStep == IsTick /\ resetLog' # "none"

C13_DetectorOnlyInPlay ==
    [][IsTick =>
         /\ resetLog' # "none" => (hasLaunched /\ ~levelComplete /\ ~levelComplete')
         /\ levelComplete' =>
               /\ resetLog' = "none"
               /\ hasLaunched' = hasLaunched
               /\ simStoppedAtMs' = simStoppedAtMs
               /\ catapultProblem' = catapultProblem
         /\ ~hasLaunched => (resetLog' = "none" /\ ~hasLaunched')]_vars

\* C13 witness: the level is complete with the projectile still launched and
\* the fallback timeout already passed, and the last tick did not reset.
C13_Witness ==
    /\ Playing
    /\ levelComplete
    /\ hasLaunched
    /\ now - launchTimeMs >= FALLBACK_RESET_MS
    /\ resetLog = "none"

\* C14: a ball's isDown flag is false when the level is created, and within
\* the attempt (ticks, keydowns, cheat presses, automatic resets) a flag that
\* is true stays true.
C14_IsDownMonotone ==
    [][/\ Playing => \A b \in Balls : IsDown(b) => towerTargets'[b[1]].isDown[b[2]]
       /\ (~Playing /\ Playing') =>
             \A i \in DOMAIN towerTargets' : \A j \in DOMAIN towerTargets'[i].isDown :
                ~towerTargets'[i].isDown[j]]_vars

\* C14 witness: after a tick that reset the projectile, a ball marked down
\* earlier fails the ball-down test and is still marked down.
C14_Witness ==
    /\ Playing
    /\ ~levelComplete
    /\ resetLog # "none"
    /\ \E b \in Balls : IsDown(b) /\ ~IsTowerBallDown(towerTargets, world, b)

\* The three signals of the ball-down test, read off a physics world.
TouchesFloor(w, b) == {b, FLOOR} \in w.contacts
NearFloor(w, b) ==
    FLOOR_Y - w.ballY[b] <= Radius(towerTargets[b[1]].spec[b[2]]) + BALL_CLEARANCE
BelowPlatform(w, b) == w.ballY[b] >= PLATFORM_SURFACE_Y + PLATFORM_HEIGHT

C16_CompletionOnce ==
    /\ [][/\ (IsTick /\ ~levelComplete) =>
               (levelComplete' <=>
                  (Balls # {} /\ \A b \in Balls : towerTargets'[b[1]].isDown[b[2]]))
          /\ (~levelComplete /\ levelComplete') => IsTick
          /\ (Playing /\ levelComplete) =>
               (levelComplete' /\ towerBallDown' = towerBallDown)]_vars
    /\ [](levelComplete =>
            /\ Balls # {}
            /\ \A b \in Balls : IsDown(b)
            /\ towerBallDown = towerBallTotal)

\* C16 witness: a two-ball level complete after a tick in which one of its
\* balls, marked down earlier, no longer passes the ball-down test.
C16_Witness ==
    /\ Playing
    /\ levelComplete
    /\ towerBallTotal = 2
    /\ towerBallDown = 2
    /\ \E b \in Balls : ~IsTowerBallDown(towerTargets, world, b)

\* C17: the score is the number of collider identities in the scored-body
\* set; within an attempt the set only grows, and the score rises by exactly
\* the number of bodies that were not yet in the set.
C17_NoDoubleCredit ==
    /\ [](score = Cardinality(scoredBodies))
    /\ [][Playing =>
            /\ scoredBodies \subseteq scoredBodies'
            /\ score' >= score
            /\ score' - score = Cardinality(scoredBodies' \ scoredBodies)]_vars

\* C17 witness: two bodies are credited and both touch the floor, in a tick
\* that credited nothing new to one of them at least.
C17_Witness ==
    /\ Playing
    /\ frame >= 3
    /\ score = 2
    /\ \A b \in scoredBodies : {b, FLOOR} \in world.contacts

\* C18 as stated: only plank bodies are credited, so the score never exceeds
\* the number of plank bodies of the level.
C18_OnlyPlanksScore ==
    /\ scoredBodies \subseteq Planks
    /\ score <= Cardinality(Planks)

\* C19 as stated: for a level with N >= 2 platforms and a valid trajectory the
\* platform sample times are strictly increasing and consecutive times differ
\* by the same amount, whatever the gap fraction in [0, 1].
C19_SampleTimesIncreasing ==
    (parabola.valid /\ Len(parabola.times) >= 2) =>
        /\ \A i \in 1..(Len(parabola.times) - 1) :
              RatLess(parabola.times[i], parabola.times[i + 1])
        /\ \A i \in 1..(Len(parabola.times) - 2) :
              RatSub(parabola.times[i + 1], parabola.times[i]) =
                 RatSub(parabola.times[i + 2], parabola.times[i + 1])

\* C20: for launch speed v > 0, gravity g > 0 and a strictly upward angle
\* (vy < 0) the return time is positive and the height at the return time is
\* the launch height: vy * tReturn + 0.5 * g * tReturn^2 = 0.
C20_ReturnTime ==
    (parabola.vy[1] < 0 /\ parabola.g[1] > 0) =>
        /\ parabola.tReturn[1] > 0
        /\ parabola.tReturn[2] > 0
        /\ HeightAt(parabola.vy, parabola.g, parabola.tReturn) = <<0, 1>>

\* C20 witness: the layout of a power-750 level at the perfect-shot angle under
\* the game's gravity: vy = 750 * sin(-55 deg), a valid trajectory.
C20_Witness ==
    /\ parabola.valid
    /\ parabola.vy = <<-2457, 4>>
    /\ parabola.g = GRAVITY_Y
    /\ parabola.tReturn = <<455, 109>>

\* ---------------------------------------------------------------- C21
\* generateParabolaLevel: tStartClamped of the layout last computed
TStartClamped ==
    RatMin(RatMul(RatClamp(levelConfig.platformGapFraction, <<0, 1>>, GAP_MAX),
                  parabola.tReturn),
           parabola.tEnd)

\* C21: when platformCount is 1 and the trajectory is valid, exactly one
\* platform is created, and its sample time is the midpoint between
\* tStartClamped and tEnd, (tStartClamped + tEnd) / 2.
C21_SinglePlatformMidpoint ==
    (parabola.valid /\ levelConfig.platformCount = 1) =>
        /\ Len(parabola.times) = 1
        /\ RatMul(<<2, 1>>, parabola.times[1]) = RatAdd(TStartClamped, parabola.tEnd)
        /\ (scene = "MainScene" => Len(towerTargets) = 1)

\* a one-platform level created on a span of positive length
C21_Witness ==
    /\ scene = "MainScene"
    /\ parabola.valid
    /\ levelConfig.platformCount = 1
    /\ Len(towerTargets) = 1
    /\ RatLess(TStartClamped, parabola.tEnd)
    /\ RatLess(TStartClamped, parabola.times[1])
    /\ RatLess(parabola.times[1], parabola.tEnd)

\* ---------------------------------------------------------------- C22
\* vy^2 - 2 * g * PLATFORM_PARABOLA_Y_OFFSET of the layout last computed
Discriminant ==
    RatSub(RatMul(parabola.vy, parabola.vy),
           RatMul(<<2, 1>>, RatMul(parabola.g, RatOfInt(PLATFORM_PARABOLA_Y_OFFSET))))

\* the trajectory never returns to the launch height, or never rises by the
\* platform offset
Degenerate == parabola.tReturn[1] <= 0 \/ Discriminant[1] <= 0

\* what create() sets up besides platforms and towers
SceneCreated ==
    /\ Playing
    /\ ballBody = CreatePlayerBall
    /\ catapultProblem \in Answers
    /\ ~hasLaunched
    /\ ~levelComplete
    /\ towerBallTotal = CountBalls(towerTargets)
    /\ towerBallDown = 0
    /\ upgradeProblems \in upgradeAnswers

\* C22: a degenerate trajectory (return time <= 0, or discriminant
\* vy^2 - 2*g*platformYOffset <= 0) produces zero platforms and zero towers,
\* and the rest of scene creation goes through.
C22_DegenerateCreatesNothing ==
    Degenerate =>
        /\ ~parabola.valid
        /\ parabola.times = << >>
        /\ parabola.anchors = << >>
        /\ (scene = "MainScene" => towerTargets = << >> /\ SceneCreated)

\* a level of three platforms created on a flight that stays below the offset
C22_Witness ==
    /\ scene = "MainScene"
    /\ levelConfig.platformCount = 3
    /\ parabola.tReturn[1] > 0
    /\ Discriminant[1] < 0
    /\ towerTargets = << >>
    /\ SceneCreated

\* ---------------------------------------------------------------- C23
\* ids of the catalog's definitions
CatalogIds == { TowerId(def) : def \in towerLibrary }

\* the catalog's definitions whose id the level lists
ListedDefs == { def \in towerLibrary : TowerId(def) \in levelConfig.towerIds }

\* C23 (as claimed): if a level's towerIds reference an id that is not in the
\* tower catalog, the definitions used for the level are the full catalog.
C23_UnknownIdMeansFullCatalog ==
    (scene = "MainScene" /\ levelConfig.towerIds \ CatalogIds # {}) =>
        activeTowerDefs = towerLibrary

\* C23 (amended): if none of a level's towerIds is in the tower catalog, the
\* definitions used for the level are the full catalog; otherwise they are
\* the catalog's definitions whose id is listed.  The lookup never yields an
\* empty set when the catalog is non-empty, and every tower is drawn from it.
C23_FallbackWhenNoneMatch ==
    (scene = "MainScene" /\ towerLibrary # {}) =>
        /\ ListedDefs = {} => activeTowerDefs = towerLibrary
        /\ ListedDefs # {} => activeTowerDefs = ListedDefs
        /\ activeTowerDefs # {}
        /\ \A i \in DOMAIN towerTargets : towerTargets[i].spec \in activeTowerDefs

\* a level listing only an unknown id, built from the full catalog
C23_Witness ==
    /\ scene = "MainScene"
    /\ levelConfig.towerIds # {}
    /\ ListedDefs = {}
    /\ activeTowerDefs = towerLibrary
    /\ Cardinality(towerLibrary) > 1
    /\ Len(towerTargets) > 1
    /\ \E i, j \in DOMAIN towerTargets : towerTargets[i].spec # towerTargets[j].spec

\* ---------------------------------------------------------------- C26
\* the parabola point of platform i: its left edge x and the height y(t_i)
PlatformLeftX(i) == XAt(parabola.vx, parabola.times[i])
ParabolaY(i) == YAt(parabola.vy, parabola.g, parabola.times[i])

\* C26: for a valid trajectory the layout creates exactly platformCount
\* platforms and platformCount towers; tower i is anchored at
\* (platform left x + PLATFORM_WIDTH / 2, y(t_i) + PLATFORM_PARABOLA_Y_OFFSET),
\* is drawn from the level's allowed tower definitions, starts frozen (all
\* bodies fixed, question shown) and has a generated problem of its own.
C26_PlatformsAndTowers ==
    (scene = "MainScene" /\ parabola.valid) =>
        /\ Len(parabola.anchors) = levelConfig.platformCount
        /\ Len(towerTargets) = levelConfig.platformCount
        /\ \A i \in DOMAIN towerTargets :
              /\ parabola.anchors[i] =
                    << RatAdd(PlatformLeftX(i), RatOfInt(PLATFORM_WIDTH \div 2)),
                       RatAdd(ParabolaY(i), RatOfInt(PLATFORM_PARABOLA_Y_OFFSET)) >>
              /\ towerTargets[i].spec \in GetLevelTowerDefinitions(towerLibrary,
                                                                   levelConfig.towerIds)
              /\ towerTargets[i].state = "frozen"
              /\ towerTargets[i].questionText
              /\ \A j \in Parts(towerTargets[i]) : towerTargets[i].bodyType[j] = "Fixed"
              /\ towerTargets[i].problem \in Answers

\* three towers with different problems on three different anchors
C26_Witness ==
    /\ scene = "MainScene"
    /\ parabola.valid
    /\ levelConfig.platformCount = 3
    /\ Len(towerTargets) = 3
    /\ parabola.anchors[1] # parabola.anchors[2]
    /\ parabola.anchors[2] # parabola.anchors[3]
    /\ towerTargets[1].problem # towerTargets[2].problem
    /\ \A i \in DOMAIN towerTargets : towerTargets[i].state = "frozen"

\* ---------------------------------------------------------------- C24
\* init + create of a scene: the step that (re-)initializes a level
CreationStep == scene' = "MainScene" /\ (scene = "SettingsScene" \/ sceneOp # "none")

AimChanges == aimAngle' # aimAngle \/ aimPower' # aimPower

AimInRange ==
    /\ aimAngle >= AIM_ANGLE_MIN_DEG /\ aimAngle <= AIM_ANGLE_MAX_DEG
    /\ aimPower >= AIM_POWER_MIN /\ aimPower <= maxAimPower
    /\ scene = "MainScene" => maxAimPower = 2 * levelConfig.perfectShotPower

\* C24 (as claimed): the aim angle stays in [-90, 0] and the aim power in
\* [AIM_POWER_MIN, maxAimPower] with maxAimPower = 2 * perfectShotPower, and
\* angle and power change only in ticks where the projectile is not launched
\* and the level is not complete.
C24_AimChangesOnlyInTicks ==
    /\ []AimInRange
    /\ [][AimChanges => (IsTick /\ ~hasLaunched /\ ~levelComplete)]_vars

\* C24 (amended): as claimed, except that the (re-)initialization of the
\* scene also sets the angle to PERFECT_SHOT_ANGLE_DEG and the power to the
\* level's perfectShotPower.  Answer submissions, upgrades and automatic
\* resets leave both unchanged.
C24_AimChangesInTicksOrInit ==
    /\ []AimInRange
    /\ [][AimChanges => \/ IsTick /\ ~hasLaunched /\ ~levelComplete
                        \/ CreationStep]_vars
    /\ [][CreationStep => /\ aimAngle' = PERFECT_SHOT_ANGLE_DEG
                          /\ aimPower' = levelConfig'.perfectShotPower]_vars
    /\ [][(upgradeState' # upgradeState \/ AutoResetStep) => ~AimChanges]_vars

\* full power kept through an upgrade and the automatic reset of a shot
C24_Witness ==
    /\ scene = "MainScene"
    /\ cursors = {"up"}
    /\ aimPower = maxAimPower
    /\ aimAngle = PERFECT_SHOT_ANGLE_DEG
    /\ upgradeState > 0
    /\ resetLog = "fallback"
    /\ ~hasLaunched

\* ---------------------------------------------------------------- C25
\* Enter pressed on an input that answers the catapult problem
CatapultAnswerStep ==
    /\ Playing
    /\ frame' = frame
    /\ answerInputValue # << >>
    /\ answerInputValue' = << >>
    /\ CheckAnswer(catapultProblem, NumberOf(answerInputValue))

\* C25: the launched flag goes from false to true only in launch (a correct
\* answer to the catapult problem while not launched and the level not
\* complete) and from true to false only in a reset (automatic, or the
\* re-initialization of the scene); while launched, no key event changes the
\* flag, the launch time or the projectile.
C25_LaunchedFlag ==
    /\ [][(~hasLaunched /\ hasLaunched') =>
             (CatapultAnswerStep /\ ~levelComplete /\ launchTimeMs' = now
              /\ ballBody'.gravityScale = 1)]_vars
    /\ [][(hasLaunched /\ ~hasLaunched') => (AutoResetStep \/ CreationStep)]_vars
    /\ [][(hasLaunched /\ ~IsTick /\ ~CreationStep) =>
             UNCHANGED << hasLaunched, launchTimeMs, simStoppedAtMs, ballBody,
                          catapultProblem >>]_vars

\* a second shot under way after the first was reset automatically
C25_Witness ==
    /\ hasLaunched
    /\ launchTimeMs > 0
    /\ resetLog = "fallback"
    /\ ballBody.gravityScale = 1

\* ---------------------------------------------------------------- C28
\* C28: once the scene is created, a catapult problem exists exactly when
\* the projectile is not launched.
C28_CatapultProblemIffNotLaunched ==
    scene = "MainScene" => (catapultProblem # NULL <=> ~hasLaunched)

\* a new catapult problem on offer after a shot was reset automatically
C28_Witness ==
    /\ scene = "MainScene"
    /\ ~hasLaunched
    /\ launchTimeMs # NULL
    /\ resetLog = "fallback"
    /\ catapultProblem \in Answers

\* ---------------------------------------------------------------- C27
\* C27: after every completion pass run before the level is complete,
\* towerBallTotal is the number of tower balls and towerBallDown the number
\* of those whose isDown is set; 0 <= towerBallDown <= towerBallTotal in every
\* state; towerBallDown never decreases within an attempt; when the level is
\* complete, towerBallDown = towerBallTotal > 0.
C27_BallBookkeeping ==
    /\ [][(IsTick /\ ~levelComplete) =>
             /\ towerBallTotal' = Cardinality(BallIds(towerTargets'))
             /\ towerBallDown' =
                   Cardinality({ b \in BallIds(towerTargets') :
                                   towerTargets'[b[1]].isDown[b[2]] })]_vars
    /\ [](0 <= towerBallDown /\ towerBallDown <= towerBallTotal)
    /\ [][~CreationStep => towerBallDown' >= towerBallDown]_vars
    /\ [](levelComplete => (towerBallDown = towerBallTotal /\ towerBallTotal > 0))

\* one of two balls down, the level not complete
C27_Witness ==
    /\ scene = "MainScene"
    /\ ~levelComplete
    /\ towerBallTotal = 2
    /\ towerBallDown = 1
    /\ frame > 1

\* ---------------------------------------------------------------- C29
\* a keydown event handled by the running scene
KeyStep == Playing /\ frame' = frame

\* C29: while the level is complete, a key event submits no answer,
\* unfreezes no tower, launches nothing, upgrades nothing and leaves the
\* input buffer alone; Enter then moves on to level index + 1, or to the
\* settings scene when the level is the last one; R restarts the same level.
\* Enter never changes the level index while the level is not complete.  The
\* level index is always within [0, Len(LEVELS) - 1].
C29_CompleteLevelKeys ==
    /\ [][(levelComplete /\ KeyStep) =>
             /\ UNCHANGED << towerTargets, hasLaunched, launchTimeMs, ballBody,
                             catapultProblem, upgradeState, upgradeProblems,
                             answerInputValue, levelIndex, score >>
             /\ sceneOp' = IF levelIndex = Len(LEVELS) - 1 THEN "settings" ELSE "next"]_vars
    /\ [][(Playing /\ sceneOp' = "next") => (levelComplete /\ KeyStep)]_vars
    /\ [][sceneOp = "next" =>
             (scene' = "MainScene" /\ levelIndex' = levelIndex + 1 /\ ~levelComplete')]_vars
    /\ [][sceneOp = "settings" =>
             (scene' = "SettingsScene" /\ levelIndex = Len(LEVELS) - 1)]_vars
    /\ [][sceneOp = "restart" =>
             (scene' = "MainScene" /\ levelIndex' = levelIndex /\ ~levelComplete')]_vars
    /\ [][(Playing /\ sceneOp' = "restart") =>
             (IsTick /\ (levelComplete \/ hasLaunched))]_vars
    /\ [][(KeyStep /\ ~levelComplete) =>
             (levelIndex' = levelIndex /\ sceneOp' = "none")]_vars
    /\ [](levelIndex >= 0 /\ levelIndex <= Len(LEVELS) - 1)

\* the game back on the settings screen after Enter on the completed last level
C29_Witness ==
    /\ scene = "SettingsScene"
    /\ levelComplete
    /\ levelIndex = Len(LEVELS) - 1
    /\ Len(towerTargets) = 2
    /\ upgradeState > 0

\* ---------------------------------------------------------------- C30
MaxDensityLevel == Len(BEAVER_DENSITY_LEVELS) - 1

\* Enter pressed on an input that answers the upgrade problem on offer
UpgradeAnswerStep ==
    /\ KeyStep
    /\ ~levelComplete
    /\ answerInputValue # << >>
    /\ answerInputValue' = << >>
    /\ upgradeProblems # NULL
    /\ NumberOf(answerInputValue) = upgradeProblems

\* C30: 0 <= densityLevel <= Len(BEAVER_DENSITY_LEVELS) - 1; one submitted
\* answer raises it by at most 1, and only when it is correct for the upgrade
\* problem on offer; the upgrade problem is null exactly when the level is at
\* its maximum; the level is kept across manual restarts and level advances
\* and goes back to 0 only when a game is started from the settings scene.
C30_DensityLevel ==
    /\ [](upgradeState >= 0 /\ upgradeState <= MaxDensityLevel)
    /\ [][(scene = "MainScene" /\ upgradeState' # upgradeState) =>
             (UpgradeAnswerStep /\ upgradeState' = upgradeState + 1)]_vars
    /\ [](scene = "MainScene" => (upgradeProblems = NULL <=> upgradeState = MaxDensityLevel))
    /\ [](scene = "MainScene" => gameState.upgrades = upgradeState)
    /\ [][(scene = "MainScene" /\ CreationStep) => upgradeState' = upgradeState]_vars
    /\ [][(scene = "SettingsScene" /\ CreationStep) => upgradeState' = 0]_vars

\* the highest density level, carried into a level after it was reached
C30_Witness ==
    /\ scene = "MainScene"
    /\ upgradeState = MaxDensityLevel
    /\ upgradeProblems = NULL
    /\ gameState.upgrades = MaxDensityLevel
    /\ levelIndex = 1
    /\ ~hasLaunched
    /\ launchTimeMs = NULL
    /\ frame = MaxAdvanceFrames
    /\ towerBallDown = 0
====
